---- MODULE Spec2Model ----
(***************************************************************************)
(* Model of python/visualize_backtest.py: the one-shot pipeline that turns *)
(* a Lean backtest results folder into report.html.                        *)
(*                                                                         *)
(* Text is modelled as sequences of one-character strings so that          *)
(* substring matching, suffix stripping, parsing and number formatting are *)
(* computed, not assumed.  Numbers are fixed-point: a value x is held as   *)
(* the integer x * Scale (four decimal places).                            *)
(***************************************************************************)
EXTENDS Integers, Sequences, FiniteSets, TLC

VARIABLES
    argv,           \* sys.argv[1:]: <<>> or <<folder name>>
    folders,        \* sub-folders of Results/, most recently modified first
    files,          \* names of the files inside the results folder
    doc,            \* content of every results (non order-events) JSON file
    events,         \* content of every *-order-events.json file
    writable,       \* whether report.html can be opened for writing
    now,            \* the wall clock, in seconds
    pc,             \* position of main()
    resultsFolder,  \* results_folder: a folder name, or None
    jsonFile,       \* json_file chosen by find_json_file
    data,           \* the loaded results document
    charts,         \* the two rendered chart payloads
    trades,         \* the list returned by load_order_events
    report,         \* content of report.html, or None while it does not exist
    exit,           \* how the run ended: "running", "ok", "exit1", "exception"
    failedAt,       \* the step that ended the run with an error, or "none"
    orderEventsFile,\* the file load_order_events chose, or None
    firstReport,    \* the content written by the first composition
    composed,       \* how many times generate_html_report wrote the file
    fKey, fValue,   \* arguments of a direct call of format_stat_value
    fOut            \* its return value

vars == <<argv, folders, files, doc, events, writable, now, pc, resultsFolder,
          jsonFile, data, charts, trades, report, exit, failedAt,
          orderEventsFile, firstReport, composed,
          fKey, fValue, fOut>>

\* Python's None: for an object, and for a text (texts are tuples of characters)
None == [t |-> "None"]
NoText == <<"None">>

----------------------------------------------------------------------------
(* Bounds of the model *)

MaxStats == 2       \* statistics in a drawn statistics mapping
MaxEvents == 2      \* entries in a drawn order-events array
MaxClock == 2       \* last clock second the model looks at

Scale == 10000      \* fixed-point unit: four decimal places

----------------------------------------------------------------------------
(* Text helpers *)

UpperAlpha == <<"A","B","C","D","E","F","G","H","I","J","K","L","M",
                "N","O","P","Q","R","S","T","U","V","W","X","Y","Z">>
LowerAlpha == <<"a","b","c","d","e","f","g","h","i","j","k","l","m",
                "n","o","p","q","r","s","t","u","v","w","x","y","z">>
DigitChars == <<"0","1","2","3","4","5","6","7","8","9">>

IsDigit(c) == \E i \in 1..10 : DigitChars[i] = c
DigitVal(c) == (CHOOSE i \in 1..10 : DigitChars[i] = c) - 1

LowerChar(c) ==
    IF \E i \in 1..26 : UpperAlpha[i] = c
    THEN LowerAlpha[CHOOSE i \in 1..26 : UpperAlpha[i] = c]
    ELSE c

UpperChar(c) ==
    IF \E i \in 1..26 : LowerAlpha[i] = c
    THEN UpperAlpha[CHOOSE i \in 1..26 : LowerAlpha[i] = c]
    ELSE c

\* str.lower() and str.upper()
Lower(s) == [i \in 1..Len(s) |-> LowerChar(s[i])]
Upper(s) == [i \in 1..Len(s) |-> UpperChar(s[i])]

\* the Python test `k in s` on strings
Contains(s, k) ==
    \E i \in 1..(Len(s) - Len(k) + 1) : SubSeq(s, i, i + Len(k) - 1) = k

ContainsAny(s, ks) == \E k \in ks : Contains(s, k)

EndsWith(s, k) ==
    Len(s) >= Len(k) /\ SubSeq(s, Len(s) - Len(k) + 1, Len(s)) = k

AllDigits(s) == \A i \in 1..Len(s) : IsDigit(s[i])

RECURSIVE NatOf(_)
NatOf(s) ==
    IF s = <<>> THEN 0
    ELSE NatOf(SubSeq(s, 1, Len(s) - 1)) * 10 + DigitVal(s[Len(s)])

RECURSIVE NatStr(_)
NatStr(n) ==
    IF n < 10 THEN <<DigitChars[n + 1]>>
    ELSE NatStr(n \div 10) \o <<DigitChars[(n % 10) + 1]>>

RECURSIVE Pow10(_)
Pow10(k) == IF k = 0 THEN 1 ELSE 10 * Pow10(k - 1)

RECURSIVE PadZero(_, _)
PadZero(s, w) == IF Len(s) >= w THEN s ELSE PadZero(<<"0">> \o s, w)

\* the "," option of a format specification: groups of three integer digits
RECURSIVE Group3(_)
Group3(s) ==
    IF Len(s) <= 3 THEN s
    ELSE Group3(SubSeq(s, 1, Len(s) - 3)) \o <<",">>
             \o SubSeq(s, Len(s) - 2, Len(s))

Abs(n) == IF n < 0 THEN 0 - n ELSE n

RECURSIVE Strip(_)
Strip(s) ==
    IF s # <<>> /\ s[1] = " " THEN Strip(Tail(s))
    ELSE IF s # <<>> /\ s[Len(s)] = " " THEN Strip(SubSeq(s, 1, Len(s) - 1))
    ELSE s

----------------------------------------------------------------------------
(* JSON values as Python objects *)

JInt(i)   == [t |-> "int",   n |-> i * Scale, s |-> <<>>]
JFloat(n) == [t |-> "float", n |-> n,         s |-> <<>>]
JStr(s)   == [t |-> "str",   n |-> 0,         s |-> s]
JBool(b)  == [t |-> "bool",  n |-> IF b THEN Scale ELSE 0, s |-> <<>>]
JNull     == [t |-> "null",  n |-> 0,         s |-> <<>>]
JList     == [t |-> "list",  n |-> 0,         s |-> <<>>]   \* the empty array

\* bool(value)
Truthy(v) ==
    CASE v.t \in {"int", "float", "bool"} -> v.n # 0
      [] v.t = "str" -> v.s # <<>>
      [] OTHER -> FALSE

\* float(str): optional sign, digits with an optional point.  Exponents,
\* "inf"/"nan" and more than four fractional digits are outside the value
\* universe of the model.
ParseFloat(s0) ==
    LET s      == Strip(s0)
        signed == s # <<>> /\ s[1] \in {"-", "+"}
        neg    == s # <<>> /\ s[1] = "-"
        body   == IF signed THEN Tail(s) ELSE s
        dots   == {i \in 1..Len(body) : body[i] = "."}
        p      == IF dots = {} THEN Len(body) + 1 ELSE CHOOSE i \in dots : TRUE
        ip     == SubSeq(body, 1, p - 1)
        fp     == SubSeq(body, p + 1, Len(body))
        ok     == /\ Cardinality(dots) <= 1
                  /\ AllDigits(ip) /\ AllDigits(fp)
                  /\ Len(ip) + Len(fp) > 0
                  /\ Len(fp) <= 4
        mag    == NatOf(ip) * Scale + NatOf(fp) * Pow10(4 - Len(fp))
    IN  IF ok THEN [ok |-> TRUE, n |-> IF neg THEN 0 - mag ELSE mag]
        ELSE [ok |-> FALSE, n |-> 0]

\* float(value): ok = FALSE stands for the ValueError / TypeError it raises
Float(v) ==
    CASE v.t \in {"int", "float", "bool"} -> [ok |-> TRUE, n |-> v.n]
      [] v.t = "str" -> ParseFloat(v.s)
      [] OTHER -> [ok |-> FALSE, n |-> 0]

\* format(x, ".{d}f") or format(x, ",.{d}f") of the fixed-point number n.
\* Rounds to nearest; an exact tie is rounded half-to-even, which is what
\* Python does for ties that are exact in binary (the value universe holds
\* no other tie).
Fixed(n, d, grouped) ==
    LET a     == Abs(n)
        q     == Pow10(4 - d)
        base  == a \div q
        r     == a % q
        rnd   == IF 2 * r > q THEN base + 1
                 ELSE IF 2 * r < q THEN base
                 ELSE IF base % 2 = 0 THEN base ELSE base + 1
        ip    == NatStr(rnd \div Pow10(d))
        fp    == PadZero(NatStr(rnd % Pow10(d)), d)
    IN  (IF n < 0 THEN <<"-">> ELSE <<>>)
          \o (IF grouped THEN Group3(ip) ELSE ip)
          \o (IF d = 0 THEN <<>> ELSE <<".">> \o fp)

\* format(x, ".2%"): x * 100 with two decimals and a percent sign
Percent(n) ==
    (IF n < 0 THEN <<"-">> ELSE <<>>)
      \o NatStr(Abs(n) \div 100) \o <<".">>
      \o PadZero(NatStr(Abs(n) % 100), 2) \o <<"%">>

\* repr of a float with at most four decimals: shortest digits, at least one
FloatStr(n) ==
    LET a  == Abs(n)
        f4 == a % Scale
        fd == IF f4 % 1000 = 0 THEN <<DigitChars[(f4 \div 1000) + 1]>>
              ELSE IF f4 % 100 = 0 THEN PadZero(NatStr(f4 \div 100), 2)
              ELSE IF f4 % 10 = 0 THEN PadZero(NatStr(f4 \div 10), 3)
              ELSE PadZero(NatStr(f4), 4)
    IN  (IF n < 0 THEN <<"-">> ELSE <<>>) \o NatStr(a \div Scale) \o <<".">> \o fd

\* str(value), as the f-string of the template renders a value
Str(v) ==
    CASE v.t = "str"   -> v.s
      [] v.t = "int"   -> (IF v.n < 0 THEN <<"-">> ELSE <<>>) \o NatStr(Abs(v.n) \div Scale)
      [] v.t = "float" -> FloatStr(v.n)
      [] v.t = "bool"  -> IF v.n # 0 THEN <<"T","r","u","e">> ELSE <<"F","a","l","s","e">>
      [] v.t = "null"  -> <<"N","o","n","e">>
      [] OTHER         -> <<"[","]">>

----------------------------------------------------------------------------
(* format_stat_value *)

PercentKeywords ==
    { <<"r","a","t","e">>, <<"r","e","t","u","r","n">>, <<"r","a","t","i","o">>,
      <<"d","r","a","w","d","o","w","n">>, <<"v","a","r","i","a","n","c","e">>,
      <<"t","u","r","n","o","v","e","r">>, <<"d","e","v","i","a","t","i","o","n">> }

CurrencyKeywords ==
    { <<"e","q","u","i","t","y">>, <<"f","e","e","s">>,
      <<"c","a","p","a","c","i","t","y">> }

ZeroPercent == <<"0",".","0","0","%">>

IsPercentName(key)  == ContainsAny(Lower(key), PercentKeywords)
IsCurrencyName(key) == ContainsAny(Lower(key), CurrencyKeywords)

\* mutant of Passthrough: the value handed back as text
PassthroughAsText(value) == JStr(Str(value))

\* the value an `except: return value` branch hands back
Passthrough(value) == value

format_stat_value(key, value) ==
    LET f == Float(value)
    IN  IF IsPercentName(key)
        THEN IF Truthy(value)
             THEN IF f.ok THEN JStr(Percent(f.n)) ELSE Passthrough(value)
             ELSE JStr(ZeroPercent)
        ELSE IF IsCurrencyName(key)
        THEN IF f.ok THEN JStr(<<"$">> \o Fixed(f.n, 2, TRUE))
             ELSE Passthrough(value)
        ELSE IF f.ok
             THEN IF Abs(f.n) < 100 * Scale
                  THEN JStr(Fixed(f.n, 4, FALSE))
                  ELSE JStr(Fixed(f.n, 2, TRUE))
             ELSE Passthrough(value)

----------------------------------------------------------------------------
(* Folder-name parsing: re.sub / re.search with -\d{8}-\d{6}$ *)

SuffixLen == 16     \* "-" + 8 digits + "-" + 6 digits

HasTimestampSuffix(name) ==
    /\ Len(name) >= SuffixLen
    /\ LET t == SubSeq(name, Len(name) - SuffixLen + 1, Len(name))
       IN  /\ t[1] = "-"
           /\ AllDigits(SubSeq(t, 2, 9))
           /\ t[10] = "-"
           /\ AllDigits(SubSeq(t, 11, 16))

\* re.sub(r'-\d{8}-\d{6}$', '', folder_name)
StripSuffix(name) ==
    IF HasTimestampSuffix(name)
    THEN SubSeq(name, 1, Len(name) - SuffixLen)
    ELSE name

NotAvailable == <<"N","/","A">>

DaysInMonth(y, m) ==
    IF m = 2
    THEN IF (y % 4 = 0 /\ y % 100 # 0) \/ y % 400 = 0 THEN 29 ELSE 28
    ELSE IF m \in {4, 6, 9, 11} THEN 30 ELSE 31

\* run_time_str: strptime("%Y%m%d%H%M%S") then strftime("%Y-%m-%d %H:%M:%S");
\* a ValueError of strptime leaves "N/A"
RunTime(results_folder) ==
    IF results_folder = NoText \/ ~HasTimestampSuffix(results_folder)
    THEN NotAvailable
    ELSE LET n  == results_folder
             t  == SubSeq(n, Len(n) - SuffixLen + 1, Len(n))
             y  == SubSeq(t, 2, 5)
             mo == SubSeq(t, 6, 7)
             d  == SubSeq(t, 8, 9)
             h  == SubSeq(t, 11, 12)
             mi == SubSeq(t, 13, 14)
             se == SubSeq(t, 15, 16)
             ok == /\ NatOf(y) >= 1
                   /\ NatOf(mo) \in 1..12
                   /\ NatOf(d) >= 1
                   /\ NatOf(d) <= DaysInMonth(NatOf(y), NatOf(mo))
                   /\ NatOf(h) <= 23 /\ NatOf(mi) <= 59 /\ NatOf(se) <= 59
         IN  IF ok
             THEN y \o <<"-">> \o mo \o <<"-">> \o d \o <<" ">>
                    \o h \o <<":">> \o mi \o <<":">> \o se
             ELSE NotAvailable

----------------------------------------------------------------------------
(* generate_html_report: strategy name, statistic buckets, trade ledger *)

\* `not strategy_name`: None and the empty string are falsy
Falsy(name) == name = NoText \/ name = <<>>

\* the explicit name of the document: 'strategyName' if that key exists,
\* else 'strategy-name' if that key exists, else None
ExplicitName(d) ==
    IF "strategyName" \in d.keys THEN d.strategyName
    ELSE IF "strategy-name" \in d.keys THEN d.strategyDashName
    ELSE NoText

\* mutant of AlgoName: an empty name replaced by "N/A" as well
AlgoNameOrNotAvailable(d) ==
    IF d.algoName = NoText \/ d.algoName = <<>> THEN NotAvailable ELSE d.algoName

\* algo_config.get('name', 'N/A')
AlgoName(d) == IF d.algoName = NoText THEN NotAvailable ELSE d.algoName

ResolveStrategyName(d, results_folder) ==
    LET first  == ExplicitName(d)
        second == IF Falsy(first) /\ results_folder # NoText
                  THEN StripSuffix(results_folder)
                  ELSE first
    IN  IF Falsy(second) THEN AlgoName(d) ELSE second

PerformanceKeywords ==
    { <<"r","e","t","u","r","n">>, <<"p","r","o","f","i","t">>,
      <<"a","l","p","h","a">>, <<"b","e","t","a">>,
      <<"i","n","f","o","r","m","a","t","i","o","n">> }

RiskKeywords ==
    { <<"s","h","a","r","p","e">>, <<"s","o","r","t","i","n","o">>,
      <<"d","r","a","w","d","o","w","n">>, <<"v","a","r","i","a","n","c","e">>,
      <<"d","e","v","i","a","t","i","o","n">>, <<"r","i","s","k">> }

\* mutant of Classify: the risk keywords tested before the performance ones
ClassifyRiskFirst(key) ==
    IF ContainsAny(Lower(key), RiskKeywords) THEN "risk"
    ELSE IF ContainsAny(Lower(key), PerformanceKeywords) THEN "performance"
    ELSE "trade"

\* the if / elif / else of the loop over stats.items()
Classify(key) ==
    IF ContainsAny(Lower(key), PerformanceKeywords) THEN "performance"
    ELSE IF ContainsAny(Lower(key), RiskKeywords) THEN "risk"
    ELSE "trade"

\* one bucket dict after the loop, as the list of its items: every statistic
\* classified into the bucket, with the string the card shows for it
RECURSIVE Bucket(_, _)
Bucket(stats, b) ==
    IF stats = <<>> THEN <<>>
    ELSE LET k == stats[Len(stats)][1]
             v == stats[Len(stats)][2]
             rest == Bucket(SubSeq(stats, 1, Len(stats) - 1), b)
         IN  IF Classify(k) = b
             THEN Append(rest, <<k, Str(format_stat_value(k, v))>>)
             ELSE rest

\* mutant of AllStatistics: the table filled with the formatted values
AllStatisticsFormatted(stats) ==
    [i \in 1..Len(stats) |->
        <<stats[i][1], Str(format_stat_value(stats[i][1], stats[i][2]))>>]

\* the rows of the "All Statistics" table: stats.items() as they are
AllStatistics(stats) ==
    [i \in 1..Len(stats) |-> <<stats[i][1], Str(stats[i][2])>>]

\* the keys the loop over trades reads with trade[...]
RequiredTradeKeys == {"time", "direction", "fillQuantity", "fillPrice", "orderId"}

TradeRaises(trade) == ~(RequiredTradeKeys \subseteq trade.keys)

\* one <tr> of the ledger; trade_time is the local-time rendering of the
\* epoch seconds, kept here as the seconds themselves
TradeRow(trade) ==
    LET direction == Upper(trade.direction)
        symbol == IF "symbolValue" \in trade.keys THEN trade.symbolValue
                  ELSE IF "symbol" \in trade.keys THEN trade.symbol
                  ELSE NotAvailable
        fee == IF "orderFeeAmount" \in trade.keys THEN trade.orderFeeAmount ELSE 0
    IN  [ class      |-> IF direction = <<"B","U","Y">> THEN "buy" ELSE "sell",
          orderId    |-> trade.orderId,
          time       |-> trade.time,
          symbol     |-> symbol,
          direction  |-> direction,
          quantity   |-> Fixed(trade.fillQuantity * Scale, 0, TRUE),
          fillPrice  |-> <<"$">> \o Fixed(trade.fillPrice * Scale, 2, TRUE),
          totalValue |-> <<"$">> \o Fixed(Abs(trade.fillQuantity * trade.fillPrice) * Scale, 2, TRUE),
          fee        |-> <<"$">> \o Fixed(fee * Scale, 2, TRUE) ]

\* trades_html: the ledger table, or the "No trade data available" paragraph
TradesHtml(tr) ==
    IF tr # <<>>
    THEN [placeholder |-> FALSE, rows |-> [i \in 1..Len(tr) |-> TradeRow(tr[i])]]
    ELSE [placeholder |-> TRUE, rows |-> <<>>]

\* the name of the exception generate_html_report raises before it opens the
\* output file, or "none"
ComposeRaises(d, tr) ==
    IF d.kind # "doc" THEN "TypeError"
    ELSE IF "statistics" \notin d.keys THEN "KeyError"
    ELSE IF "algorithmConfiguration" \notin d.keys THEN "KeyError"
    ELSE IF \E i \in 1..Len(tr) : TradeRaises(tr[i]) THEN "KeyError"
    ELSE "none"

\* mutant of HtmlContent: a footer without the time of generation
HtmlContentNoClock(d, equity_chart_b64, drawdown_chart_b64, tr, results_folder, clock) ==
    [ strategy    |-> ResolveStrategyName(d, results_folder),
      runTime     |-> RunTime(results_folder),
      equityImg   |-> equity_chart_b64,
      drawdownImg |-> drawdown_chart_b64,
      performance |-> Bucket(d.statistics, "performance"),
      risk        |-> Bucket(d.statistics, "risk"),
      trade       |-> Bucket(d.statistics, "trade"),
      allStats    |-> AllStatistics(d.statistics),
      trades      |-> TradesHtml(tr),
      generated   |-> 0 ]

\* html_content, as the record of everything interpolated into the template
HtmlContent(d, equity_chart_b64, drawdown_chart_b64, tr, results_folder, clock) ==
    [ strategy    |-> ResolveStrategyName(d, results_folder),
      runTime     |-> RunTime(results_folder),
      equityImg   |-> equity_chart_b64,
      drawdownImg |-> drawdown_chart_b64,
      performance |-> Bucket(d.statistics, "performance"),
      risk        |-> Bucket(d.statistics, "risk"),
      trade       |-> Bucket(d.statistics, "trade"),
      allStats    |-> AllStatistics(d.statistics),
      trades      |-> TradesHtml(tr),
      generated   |-> clock ]

----------------------------------------------------------------------------
(* Input universes *)

StatNames ==
    { <<"S","h","a","r","p","e"," ","R","a","t","i","o">>, <<"W","i","n"," ","R","a","t","e">>, <<"E","n","d"," ","E","q","u","i","t","y">>, <<"S","t","a","r","t"," ","E","q","u","i","t","y">>, <<"N","e","t"," ","P","r","o","f","i","t">>, <<"D","R","A","W","D","O","W","N"," ","R","E","T","U","R","N">>, <<"D","r","a","w","d","o","w","n">>, <<"T","o","t","a","l"," ","O","r","d","e","r","s">> }

StatValues ==
    { JFloat(12345), JFloat(5500), JInt(0), JInt(100000), JFloat(0 - 500),
      JFloat(12345678), JInt(100), JFloat(999999),
      JStr(<<"0",".","5","5">>), JStr(<<>>), JStr(<<"1","2",".","5","%">>), JStr(<<"a","b","c">>),
      JNull, JBool(TRUE), JList }

\* the statistics of a Lean results file, as main() expects them
FullStats ==
    << <<<<"S","t","a","r","t"," ","E","q","u","i","t","y">>, JStr(<<"1","0","0","0","0","0">>)>>,
       <<<<"E","n","d"," ","E","q","u","i","t","y">>, JStr(<<"1","1","0","0","0","0",".","5">>)>>,
       <<<<"N","e","t"," ","P","r","o","f","i","t">>, JStr(<<"1","2",".","5","%">>)>>,
       <<<<"S","h","a","r","p","e"," ","R","a","t","i","o">>, JFloat(12345)>>,
       <<<<"D","r","a","w","d","o","w","n">>, JStr(<<"1","2",".","5","%">>)>> >>

TopKeys == {"statistics", "algorithmConfiguration", "charts"}

BaseDoc ==
    [ kind |-> "doc", valid |-> TRUE, keys |-> TopKeys,
      equityPath |-> TRUE, drawdownPath |-> TRUE,
      statistics |-> FullStats,
      algoName |-> <<"A","l","g","o">>, strategyName |-> NoText, strategyDashName |-> NoText ]

MainDocs ==
    { BaseDoc,
      [BaseDoc EXCEPT !.valid = FALSE],
      [BaseDoc EXCEPT !.keys = TopKeys \ {"charts"}],
      [BaseDoc EXCEPT !.equityPath = FALSE],
      [BaseDoc EXCEPT !.drawdownPath = FALSE],
      [BaseDoc EXCEPT !.keys = TopKeys \ {"statistics"}],
      [BaseDoc EXCEPT !.keys = TopKeys \ {"algorithmConfiguration"}],
      [BaseDoc EXCEPT !.statistics = <<>>] }

TradeKeys ==
    { "status", "orderId", "time", "symbolValue", "direction",
      "fillQuantity", "fillPrice", "orderFeeAmount" }

FilledBuy ==
    [ obj |-> TRUE, keys |-> TradeKeys, status |-> "filled", orderId |-> 1,
      time |-> 100, symbolValue |-> <<"X","O","M">>, symbol |-> <<"X","O","M">>, direction |-> <<"b","u","y">>,
      fillQuantity |-> 10, fillPrice |-> 5, orderFeeAmount |-> 1 ]

EntryKinds ==
    { FilledBuy,
      [FilledBuy EXCEPT !.status = "Filled", !.orderId = 2],
      [FilledBuy EXCEPT !.status = "canceled", !.orderId = 3],
      [FilledBuy EXCEPT !.keys = TradeKeys \ {"status"}, !.orderId = 4],
      \* a filled entry that carries nothing but its status
      [FilledBuy EXCEPT !.keys = {"status"}, !.orderId = 5],
      \* an array element that is not a JSON object
      [FilledBuy EXCEPT !.obj = FALSE, !.keys = {}, !.orderId = 6] }

SeqsUpTo(S, n) == UNION { [1..k -> S] : k \in 0..n }

EventContents ==
    { [kind |-> "events", valid |-> FALSE, isArray |-> TRUE, entries |-> <<>>],
      [kind |-> "events", valid |-> TRUE, isArray |-> FALSE, entries |-> <<>>] }
    \cup { [kind |-> "events", valid |-> TRUE, isArray |-> TRUE, entries |-> es] :
             es \in SeqsUpTo(EntryKinds, MaxEvents) }

NoEvents == [kind |-> "events", valid |-> TRUE, isArray |-> TRUE, entries |-> <<>>]

FolderNames == { <<"B","u","y","A","n","d","H","o","l","d","-","2","0","2","6","0","1","0","1","-","2","2","0","1","4","9">>, <<"-","2","0","2","6","0","1","0","1","-","2","2","0","1","4","9">>, <<"B","u","y","A","n","d","H","o","l","d">>, <<"B","u","y","-","2","0","2","6","0","1","0","-","2","2","0","1","4","9">>, <<"B","u","y","-","2","0","2","6","1","3","4","0","-","2","2","0","1","4","9">> }

JsonExt == <<".","j","s","o","n">>
OrderEventsExt == <<"-","o","r","d","e","r","-","e","v","e","n","t","s",".","j","s","o","n">>

\* the files a results folder may hold
FileUniverse(folder) ==
    { StripSuffix(folder) \o JsonExt,
      <<"o","t","h","e","r">> \o JsonExt,
      StripSuffix(folder) \o OrderEventsExt,
      <<"o","t","h","e","r">> \o OrderEventsExt }

----------------------------------------------------------------------------
(* find_json_file and load_order_events *)

\* folder.glob(pattern) for the two patterns in use, "*.json" and
\* "*-order-events.json": the files whose name ends with the fixed part
Glob(fs, ext) == {f \in fs : EndsWith(f, ext)}

\* the files find_json_file may return: {StrategyName}.json when it exists,
\* else whichever file glob("*.json") lists first (the order is the
\* directory's, so any match can be first)
JsonFileChoices(folder, fs) ==
    LET json_file == StripSuffix(folder) \o JsonExt
    IN  IF json_file \in fs THEN {json_file} ELSE Glob(fs, JsonExt)

\* the files load_order_events may open
OrderEventsFileChoices(folder, fs) ==
    LET order_events_file == StripSuffix(folder) \o OrderEventsExt
    IN  IF order_events_file \in fs THEN {order_events_file}
        ELSE Glob(fs, OrderEventsExt)

\* mutant of IsFilled: the status compared without regard to letter case
IsFilledAnyCase(e) == "status" \in e.keys /\ e.status \in {"filled", "Filled"}

\* e.get('status') == 'filled'
IsFilled(e) == "status" \in e.keys /\ e.status = "filled"

\* the try / except of load_order_events on the content of the chosen file:
\* json.load fails on invalid JSON, iterating or e.get fails on a value
\* that is not an array of objects, and every failure returns []
FilterTrades(ev) ==
    IF ~ev.valid \/ ~ev.isArray THEN <<>>
    ELSE IF \E i \in 1..Len(ev.entries) : ~ev.entries[i].obj THEN <<>>
    ELSE SelectSeq(ev.entries, IsFilled)

\* the content json.load reads from a file of the folder
Content(f) == IF EndsWith(f, OrderEventsExt) THEN events ELSE doc

----------------------------------------------------------------------------
(* main() *)

Inputs == <<argv, folders, files, doc, events, writable>>
FormatCall == <<fKey, fValue, fOut>>
History == <<firstReport, composed>>

Fail(step, how) ==
    /\ pc' = "done"
    /\ exit' = how
    /\ failedAt' = step

\* lines 513-533: the folder named on the command line, or the most recent
ParseArgs ==
    /\ pc = "args"
    /\ IF argv # <<>>
       THEN IF \E i \in 1..Len(folders) : folders[i] = argv[1]
            THEN /\ resultsFolder' = argv[1]
                 /\ pc' = "find"
                 /\ UNCHANGED <<exit, failedAt>>
            ELSE /\ Fail("main:args", "exit1")
                 /\ UNCHANGED resultsFolder
       ELSE IF folders # <<>>
            THEN /\ resultsFolder' = folders[1]
                 /\ pc' = "find"
                 /\ UNCHANGED <<exit, failedAt>>
            ELSE /\ Fail("get_most_recent_results_folder", "exception")
                 /\ UNCHANGED resultsFolder
    /\ UNCHANGED <<Inputs, now, jsonFile, data, charts, trades, report,
                   orderEventsFile, History, FormatCall>>

\* lines 536-541
FindJsonFile ==
    /\ pc = "find"
    /\ LET choices == JsonFileChoices(resultsFolder, files)
       IN  IF choices = {}
           THEN /\ Fail("find_json_file", "exit1")
                /\ UNCHANGED jsonFile
           ELSE /\ \E f \in choices : jsonFile' = f
                /\ pc' = "load"
                /\ UNCHANGED <<exit, failedAt>>
    /\ UNCHANGED <<Inputs, now, resultsFolder, data, charts, trades, report,
                   orderEventsFile, History, FormatCall>>

\* line 547: load_results
LoadResults ==
    /\ pc = "load"
    /\ IF Content(jsonFile).valid
       THEN /\ data' = Content(jsonFile)
            /\ pc' = "equity"
            /\ UNCHANGED <<exit, failedAt>>
       ELSE /\ Fail("load_results", "exception")
            /\ UNCHANGED data
    /\ UNCHANGED <<Inputs, now, resultsFolder, jsonFile, charts, trades, report,
                   orderEventsFile, History, FormatCall>>

\* data['charts']['Strategy Equity']['series']['Equity']['values']
HasEquitySeries(d) == d.kind = "doc" /\ "charts" \in d.keys /\ d.equityPath

\* data['charts']['Drawdown']['series']['Equity Drawdown']['values']
HasDrawdownSeries(d) == d.kind = "doc" /\ "charts" \in d.keys /\ d.drawdownPath

\* line 550: extract_equity_series
ExtractEquitySeries ==
    /\ pc = "equity"
    /\ IF HasEquitySeries(data)
       THEN pc' = "drawdown" /\ UNCHANGED <<exit, failedAt>>
       ELSE Fail("extract_equity_series", "exception")
    /\ UNCHANGED <<Inputs, now, resultsFolder, jsonFile, data, charts, trades,
                   report, orderEventsFile, History, FormatCall>>

\* line 553: extract_drawdown_series
ExtractDrawdownSeries ==
    /\ pc = "drawdown"
    /\ IF HasDrawdownSeries(data)
       THEN pc' = "charts" /\ UNCHANGED <<exit, failedAt>>
       ELSE Fail("extract_drawdown_series", "exception")
    /\ UNCHANGED <<Inputs, now, resultsFolder, jsonFile, data, charts, trades,
                   report, orderEventsFile, History, FormatCall>>

EquityPayload == "data:image/png;base64,equity"
DrawdownPayload == "data:image/png;base64,drawdown"

\* lines 556-562: both charts rendered and encoded
CreateCharts ==
    /\ pc = "charts"
    /\ charts' = [equity |-> EquityPayload, drawdown |-> DrawdownPayload]
    /\ pc' = "events"
    /\ UNCHANGED <<Inputs, now, resultsFolder, jsonFile, data, trades, report,
                   exit, failedAt, orderEventsFile, History, FormatCall>>

\* mutant of LoadOrderEvents: no try / except around the load, so a file that
\* cannot be loaded ends the run
LoadOrderEventsNoCatch ==
    /\ pc = "events"
    /\ LET choices == OrderEventsFileChoices(resultsFolder, files)
       IN  IF choices = {}
           THEN /\ trades' = <<>> /\ pc' = "generate"
                /\ UNCHANGED <<orderEventsFile, exit, failedAt>>
           ELSE \E f \in choices :
                    /\ orderEventsFile' = f
                    /\ LET ev == Content(f)
                           bad == \/ ~ev.valid \/ ~ev.isArray
                                  \/ \E i \in 1..Len(ev.entries) : ~ev.entries[i].obj
                       IN  IF bad
                           THEN /\ Fail("load_order_events", "exception")
                                /\ UNCHANGED trades
                           ELSE /\ trades' = SelectSeq(ev.entries, IsFilled)
                                /\ pc' = "generate"
                                /\ UNCHANGED <<exit, failedAt>>
    /\ UNCHANGED <<Inputs, now, resultsFolder, jsonFile, data, charts, report,
                   History, FormatCall>>

\* line 565: load_order_events
LoadOrderEvents ==
    /\ pc = "events"
    /\ LET choices == OrderEventsFileChoices(resultsFolder, files)
       IN  IF choices = {}
           THEN trades' = <<>> /\ UNCHANGED orderEventsFile
           ELSE \E f \in choices :
                    /\ orderEventsFile' = f
                    /\ trades' = FilterTrades(Content(f))
    /\ pc' = "generate"
    /\ UNCHANGED <<Inputs, now, resultsFolder, jsonFile, data, charts, report,
                   exit, failedAt, History, FormatCall>>

\* line 569: generate_html_report, up to and including the file write
GenerateHtmlReport ==
    /\ pc = "generate"
    /\ IF ComposeRaises(data, trades) # "none" \/ ~writable
       THEN /\ Fail("generate_html_report", "exception")
            /\ UNCHANGED <<report, History>>
       ELSE /\ report' = HtmlContent(data, charts.equity, charts.drawdown,
                                     trades, resultsFolder, now)
            /\ firstReport' = report'
            /\ composed' = composed + 1
            /\ pc' = "summary"
            /\ UNCHANGED <<exit, failedAt>>
    /\ UNCHANGED <<Inputs, now, resultsFolder, jsonFile, data, charts, trades,
                   orderEventsFile, FormatCall>>

HasStat(stats, key) == \E i \in 1..Len(stats) : stats[i][1] = key
StatOf(stats, key) == stats[CHOOSE i \in 1..Len(stats) : stats[i][1] = key][2]

SummaryKeys ==
    { <<"S","t","a","r","t"," ","E","q","u","i","t","y">>, <<"E","n","d"," ","E","q","u","i","t","y">>, <<"N","e","t"," ","P","r","o","f","i","t">>, <<"S","h","a","r","p","e"," ","R","a","t","i","o">>, <<"D","r","a","w","d","o","w","n">> }

\* lines 571-578: the "Report Summary" prints read five statistics by name
\* and convert two of them with float()
SummaryRaises(stats) ==
    \/ \E k \in SummaryKeys : ~HasStat(stats, k)
    \/ ~Float(StatOf(stats, <<"S","t","a","r","t"," ","E","q","u","i","t","y">>)).ok
    \/ ~Float(StatOf(stats, <<"E","n","d"," ","E","q","u","i","t","y">>)).ok

PrintSummary ==
    /\ pc = "summary"
    /\ IF SummaryRaises(data.statistics)
       THEN Fail("main:summary", "exception")
       ELSE pc' = "done" /\ exit' = "ok" /\ UNCHANGED failedAt
    /\ UNCHANGED <<Inputs, now, resultsFolder, jsonFile, data, charts, trades,
                   report, orderEventsFile, History, FormatCall>>

----------------------------------------------------------------------------
(* Spec: one run of main() on a drawn results directory *)

MainFolders == { <<"B","u","y","A","n","d","H","o","l","d","-","2","0","2","6","0","1","0","1","-","2","2","0","1","4","9">> }

InitRun ==
    /\ resultsFolder = NoText /\ jsonFile = NoText /\ data = None /\ charts = None
    /\ trades = <<>> /\ report = None /\ exit = "running" /\ failedAt = "none"
    /\ orderEventsFile = NoText /\ firstReport = None /\ composed = 0

NoFormatCall == fKey = NoText /\ fValue = None /\ fOut = None

Init ==
    /\ \E f \in MainFolders :
          /\ folders \in {<<>>, <<f>>}
          /\ argv \in {<<>>, <<f>>}
          /\ files \in SUBSET FileUniverse(f)
    /\ doc \in MainDocs
    /\ events \in EventContents
    /\ writable \in BOOLEAN
    /\ now = 0
    /\ pc = "args"
    /\ InitRun
    /\ NoFormatCall

Next ==
    \/ ParseArgs
    \/ FindJsonFile
    \/ LoadResults
    \/ ExtractEquitySeries
    \/ ExtractDrawdownSeries
    \/ CreateCharts
    \/ LoadOrderEvents
    \/ GenerateHtmlReport
    \/ PrintSummary

Spec == Init /\ [][Next]_vars

----------------------------------------------------------------------------
(* Properties of a run of main() *)

RunFailed == exit \in {"exit1", "exception"}

\* load_order_events has returned in this run
EventsLoaded ==
    \/ pc \in {"generate", "summary"}
    \/ exit = "ok"
    \/ failedAt \in {"generate_html_report", "main:summary"}

\* generate_html_report has returned or raised in this run
ComposeOver ==
    \/ pc = "summary"
    \/ exit = "ok"
    \/ failedAt \in {"generate_html_report", "main:summary"}

\* the document holds the two sections generate_html_report subscripts
HasReportSections(d) ==
    d.kind = "doc" /\ {"statistics", "algorithmConfiguration"} \subseteq d.keys

\* C1: a run of main() that ends with an error has not written report.html.
C1_NoReportOnError == RunFailed => report = None

\* the indices of the entries whose status is exactly "filled"
FilledIndices(es) ==
    {i \in 1..Len(es) : "status" \in es[i].keys /\ es[i].status = "filled"}

\* tr is the subsequence of es at the filled indices, in the original order
IsFilledSubsequence(tr, es) ==
    LET idx == FilledIndices(es)
        nth(k) == CHOOSE i \in idx : Cardinality({j \in idx : j < i}) = k - 1
    IN  /\ Len(tr) = Cardinality(idx)
        /\ \A k \in 1..Len(tr) : tr[k] = es[nth(k)]

\* the order-events file that was opened holds an array of objects
EventsAreObjects ==
    /\ orderEventsFile # NoText
    /\ events.valid /\ events.isArray
    /\ \A i \in 1..Len(events.entries) : events.entries[i].obj

\* C2: for an order-events array of objects, the trade list is exactly the
\* subsequence of entries with status "filled", in order and with repeated
\* order ids kept; with no filled entry the list is empty, and composing a
\* report from a document that has its sections then writes the
\* "No trade data available" placeholder.
C2_TradesAreFilledSubsequence ==
    (EventsLoaded /\ EventsAreObjects) =>
        /\ IsFilledSubsequence(trades, events.entries)
        /\ FilledIndices(events.entries) = {} =>
              /\ trades = <<>>
              /\ report # None => report.trades.placeholder
              /\ (ComposeOver /\ HasReportSections(data) /\ writable) =>
                    report # None

\* C2 witness: an array that mixes "filled" with "Filled" was filtered to
\* its one filled entry.
C2_Witness ==
    /\ EventsLoaded /\ EventsAreObjects
    /\ Len(events.entries) = 2
    /\ events.entries[2].status = "Filled"
    /\ trades = <<events.entries[1]>>

\* no order-events file in the folder, or one that cannot be loaded
DegradedEvents ==
    \/ OrderEventsFileChoices(resultsFolder, files) = {}
    \/ ~events.valid
    \/ ~events.isArray
    \/ \E i \in 1..Len(events.entries) : ~events.entries[i].obj

\* C3: a missing or unloadable order-events file never ends the run: the
\* trade list is empty, the load step is never the failing step, and the
\* report is written with the placeholder unless the document lacks a
\* section or the file cannot be written.
C3_DegradedEventsNotFatal ==
    /\ failedAt # "load_order_events"
    /\ (EventsLoaded /\ DegradedEvents) =>
          /\ trades = <<>>
          /\ report # None => report.trades.placeholder
          /\ (ComposeOver /\ HasReportSections(data) /\ writable) => report # None

\* C3 witness: the order-events file held invalid JSON and the report was
\* written with the placeholder.
C3_Witness ==
    /\ orderEventsFile # NoText
    /\ ~events.valid
    /\ report # None
    /\ report.trades.placeholder

\* C4: generate_html_report fails only when the output file cannot be
\* written.
C4_ComposeFailsOnlyOnWrite ==
    failedAt = "generate_html_report" => ~writable

----------------------------------------------------------------------------
(* SpecFormat: direct calls of format_stat_value(key, value) *)

\* a folder with nothing to read, for the specifications that call one
\* function directly
NoFolder ==
    /\ argv = <<>> /\ folders = <<>> /\ files = {}
    /\ events = NoEvents /\ writable = TRUE

InitFormat ==
    /\ NoFolder /\ doc = BaseDoc /\ now = 0
    /\ InitRun
    /\ pc = "format"
    /\ fKey \in StatNames
    /\ fValue \in StatValues
    /\ fOut = None

FormatStatValue ==
    /\ pc = "format"
    /\ fOut' = format_stat_value(fKey, fValue)
    /\ pc' = "formatted"
    /\ UNCHANGED <<Inputs, now, resultsFolder, jsonFile, data, charts, trades,
                   report, exit, failedAt, orderEventsFile, History, fKey, fValue>>

NextFormat == FormatStatValue

SpecFormat == InitFormat /\ [][NextFormat]_vars

\* C7: "Sharpe Ratio" with value 1.2345 formats as the plain number "1.2345".
C7_SharpeRatioPlain ==
    (pc = "formatted" /\ fKey = <<"S","h","a","r","p","e"," ","R","a","t","i","o">> /\ fValue = JFloat(12345))
        => fOut = JStr(<<"1",".","2","3","4","5">>)

\* an empty or zero value
EmptyOrZero(v) ==
    \/ v.t \in {"null", "list"}
    \/ v.t = "str" /\ v.s = <<>>
    \/ v.t \in {"int", "float", "bool"} /\ v.n = 0

\* C10: format_stat_value always returns; a value that float() rejects comes
\* back unchanged under every rule, except that an empty or zero value under
\* a percentage name gives "0.00%".
C10_PassthroughOnCoercionFailure ==
    pc = "formatted" =>
        /\ fOut # None
        /\ (IsPercentName(fKey) /\ EmptyOrZero(fValue)) => fOut = JStr(<<"0",".","0","0","%">>)
        /\ (~Float(fValue).ok /\ ~(IsPercentName(fKey) /\ EmptyOrZero(fValue)))
              => fOut = fValue

\* C10 witness: null, which float() rejects, came back unchanged under a
\* currency name.
C10_Witness ==
    /\ pc = "formatted"
    /\ fKey = <<"E","n","d"," ","E","q","u","i","t","y">>
    /\ fValue = JNull
    /\ fOut = JNull

----------------------------------------------------------------------------
(* Direct calls of generate_html_report(data, ..., trades, output_file,    *)
(* results_folder)                                                         *)

InitCall(d, tr, results_folder) ==
    /\ NoFolder /\ now = 0
    /\ doc = d /\ data = d
    /\ resultsFolder = results_folder
    /\ jsonFile = NoText /\ orderEventsFile = NoText
    /\ charts = [equity |-> EquityPayload, drawdown |-> DrawdownPayload]
    /\ trades = tr
    /\ report = None /\ exit = "running" /\ failedAt = "none"
    /\ firstReport = None /\ composed = 0
    /\ NoFormatCall
    /\ pc = "generate"

----------------------------------------------------------------------------
(* SpecStats: reports composed from drawn statistics mappings *)

MappingNames ==
    { <<"S","h","a","r","p","e"," ","R","a","t","i","o">>, <<"W","i","n"," ","R","a","t","e">>,
      <<"N","e","t"," ","P","r","o","f","i","t">>, <<"D","R","A","W","D","O","W","N"," ","R","E","T","U","R","N">>,
      <<"T","o","t","a","l"," ","O","r","d","e","r","s">> }

MappingValues == { JFloat(5500), JInt(0), JStr(<<"1","2",".","5","%">>) }

\* a JSON object has each key once
StatMappings ==
    { st \in SeqsUpTo(MappingNames \X MappingValues, MaxStats) :
        \A i, j \in 1..Len(st) : i # j => st[i][1] # st[j][1] }

InitStats ==
    \E st \in StatMappings :
        InitCall([BaseDoc EXCEPT !.statistics = st], <<>>, <<"B","u","y","A","n","d","H","o","l","d","-","2","0","2","6","0","1","0","1","-","2","2","0","1","4","9">>)

NextStats == GenerateHtmlReport \/ PrintSummary

SpecStats == InitStats /\ [][NextStats]_vars

\* key contains one of the keywords, letter case ignored
HasKeyword(key, kws) ==
    \E kw \in kws : \E i \in 1..Len(key) :
        /\ i + Len(kw) - 1 <= Len(key)
        /\ \A j \in 1..Len(kw) : LowerChar(key[i + j - 1]) = kw[j]

KeysOf(bucket) == {bucket[j][1] : j \in 1..Len(bucket)}

PositionIn(stats, key) == CHOOSE i \in 1..Len(stats) : stats[i][1] = key

\* the bucket lists its statistics in the order of the source mapping
KeepsOrder(bucket, stats) ==
    \A a, b \in 1..Len(bucket) :
        a < b => PositionIn(stats, bucket[a][1]) < PositionIn(stats, bucket[b][1])

\* C6: every statistic is in exactly one bucket, chosen by its name alone:
\* Performance when it contains a performance keyword, else Risk when it
\* contains a risk keyword, else Trade; each bucket keeps the source order.
C6_OneBucketByName ==
    report # None =>
        LET st == data.statistics
            P == KeysOf(report.performance)
            R == KeysOf(report.risk)
            T == KeysOf(report.trade)
        IN  /\ P \cap R = {} /\ P \cap T = {} /\ R \cap T = {}
            /\ Len(report.performance) + Len(report.risk) + Len(report.trade)
                 = Len(st)
            /\ \A i \in 1..Len(st) :
                 LET k == st[i][1]
                 IN  /\ k \in P <=> HasKeyword(k, PerformanceKeywords)
                     /\ k \in R <=> /\ ~HasKeyword(k, PerformanceKeywords)
                                    /\ HasKeyword(k, RiskKeywords)
                     /\ k \in T <=> /\ ~HasKeyword(k, PerformanceKeywords)
                                    /\ ~HasKeyword(k, RiskKeywords)
            /\ KeepsOrder(report.performance, st)
            /\ KeepsOrder(report.risk, st)
            /\ KeepsOrder(report.trade, st)

\* C6 witness: "DRAWDOWN RETURN", which matches both keyword sets, is in the
\* Performance bucket after another performance statistic.
C6_Witness ==
    /\ report # None
    /\ Len(report.performance) = 2
    /\ report.performance[2][1] = <<"D","R","A","W","D","O","W","N"," ","R","E","T","U","R","N">>
    /\ report.risk = <<>>

\* the string the bucket cards show for a statistic
CardValue(r, key) ==
    LET all == r.performance \o r.risk \o r.trade
    IN  all[CHOOSE j \in 1..Len(all) : all[j][1] = key][2]

\* C8: the "All Statistics" table shows every statistic, in source order,
\* with the same formatted string as its bucket card.
C8_AppendixFormatted ==
    report # None =>
        /\ Len(report.allStats) = Len(data.statistics)
        /\ \A i \in 1..Len(report.allStats) :
             /\ report.allStats[i][1] = data.statistics[i][1]
             /\ report.allStats[i][2] = CardValue(report, data.statistics[i][1])

\* C8 amended: the "All Statistics" table shows every statistic, in source
\* order, with its raw value as str() renders it; that is the card's string
\* whenever format_stat_value hands the value back unchanged.
C8_AppendixRaw ==
    report # None =>
        /\ Len(report.allStats) = Len(data.statistics)
        /\ \A i \in 1..Len(report.allStats) :
             LET k == data.statistics[i][1]
                 v == data.statistics[i][2]
             IN  /\ report.allStats[i][1] = k
                 /\ report.allStats[i][2] = Str(v)
                 /\ (~Float(v).ok /\ ~(IsPercentName(k) /\ EmptyOrZero(v)))
                       => report.allStats[i][2] = CardValue(report, k)

\* C8 witness: "Win Rate" 0.55 is "0.55" in the table and "55.00%" on its card.
C8_Witness ==
    /\ report # None
    /\ Len(report.allStats) = 2
    /\ report.allStats[2] = <<<<"W","i","n"," ","R","a","t","e">>, <<"0",".","5","5">>>>
    /\ CardValue(report, <<"W","i","n"," ","R","a","t","e">>) = <<"5","5",".","0","0","%">>

----------------------------------------------------------------------------
(* SpecName: reports composed from drawn name sources *)

NameOptions(name) == { NoText, <<>>, name }

\* the document with the given explicit and algorithm-configuration names;
\* NoText stands for a key that is not in the document
NamedDoc(sn, dn, an) ==
    [BaseDoc EXCEPT
        !.keys = TopKeys
                   \cup (IF sn # NoText THEN {"strategyName"} ELSE {})
                   \cup (IF dn # NoText THEN {"strategy-name"} ELSE {}),
        !.strategyName = sn,
        !.strategyDashName = dn,
        !.algoName = an]

InitName ==
    \E sn \in NameOptions(<<"C","u","s","t","o","m">>), dn \in NameOptions(<<"D","a","s","h","e","d">>),
       an \in NameOptions(<<"A","l","g","o">>), f \in FolderNames \cup {NoText} :
        InitCall(NamedDoc(sn, dn, an), <<>>, f)

NextName == GenerateHtmlReport \/ PrintSummary

SpecName == InitName /\ [][NextName]_vars

Present(name) == name # NoText /\ name # <<>>

\* the explicit name field: 'strategyName' when the document has that key,
\* else 'strategy-name'
ExplicitField ==
    IF "strategyName" \in data.keys THEN data.strategyName
    ELSE IF "strategy-name" \in data.keys THEN data.strategyDashName
    ELSE NoText

\* the results-folder name without its -{8 digits}-{6 digits} suffix
FolderField ==
    IF resultsFolder = NoText THEN NoText ELSE StripSuffix(resultsFolder)

\* C5: the name shown is the explicit name if present and non-empty, else
\* the stripped folder name if present and non-empty, else
\* algorithmConfiguration.name if present and non-empty, else "N/A".
C5_StrictChain ==
    report # None =>
        report.strategy =
            IF Present(ExplicitField) THEN ExplicitField
            ELSE IF Present(FolderField) THEN FolderField
            ELSE IF Present(data.algoName) THEN data.algoName
            ELSE <<"N","/","A">>

\* C5 amended: as C5, but algorithmConfiguration.name is used whenever that
\* key is present, empty or not, and "N/A" only when the key is absent.
C5_ChainWithRawAlgoName ==
    report # None =>
        /\ report.strategy =
             IF Present(ExplicitField) THEN ExplicitField
             ELSE IF Present(FolderField) THEN FolderField
             ELSE IF data.algoName # NoText THEN data.algoName
             ELSE <<"N","/","A">>
        /\ (~Present(ExplicitField) /\ resultsFolder = <<"B","u","y","A","n","d","H","o","l","d","-","2","0","2","6","0","1","0","1","-","2","2","0","1","4","9">>)
              => report.strategy = <<"B","u","y","A","n","d","H","o","l","d">>

\* C5 witness: no explicit name, a folder name that is only a timestamp and
\* an empty algorithmConfiguration.name give an empty strategy name.
C5_Witness ==
    /\ report # None
    /\ ~Present(ExplicitField)
    /\ resultsFolder = <<"-","2","0","2","6","0","1","0","1","-","2","2","0","1","4","9">>
    /\ data.algoName = <<>>
    /\ report.strategy = <<>>

----------------------------------------------------------------------------
(* SpecCompose: the same report composed again and again while time passes *)

MaxCompose == 2     \* compositions of one report

FilledSell ==
    [FilledBuy EXCEPT !.direction = <<"s","e","l","l">>, !.fillQuantity = 0 - 10,
                      !.keys = TradeKeys \ {"orderFeeAmount"}]

InitCompose ==
    \E tr \in SeqsUpTo({FilledBuy, FilledSell}, MaxEvents),
       d \in {BaseDoc, [BaseDoc EXCEPT !.statistics = <<>>]},
       f \in FolderNames :
        InitCall(d, tr, f)

\* generate_html_report called once more with the arguments of the first call
Recompose ==
    /\ pc = "summary"
    /\ composed < MaxCompose
    /\ report' = HtmlContent(data, charts.equity, charts.drawdown,
                             trades, resultsFolder, now)
    /\ composed' = composed + 1
    /\ UNCHANGED <<Inputs, now, pc, resultsFolder, jsonFile, data, charts,
                   trades, exit, failedAt, orderEventsFile, firstReport,
                   FormatCall>>

\* a second passes between two calls
Tick ==
    /\ now < MaxClock
    /\ now' = now + 1
    /\ UNCHANGED <<Inputs, pc, resultsFolder, jsonFile, data, charts, trades,
                   report, exit, failedAt, orderEventsFile, History, FormatCall>>

NextCompose == GenerateHtmlReport \/ Recompose \/ Tick

SpecCompose == InitCompose /\ [][NextCompose]_vars

\* C9: after a second composition from the same inputs the file content is
\* identical to the first composition, whatever time passed in between.
C9_Idempotent == composed >= 2 => report = firstReport

\* C9 amended: a second composition from the same inputs writes the content
\* of the first composition with one difference, the footer's generation
\* time, which is the clock second of the new composition; the file is
\* identical when both compositions happen within the same second.
C9_SameButTimestamp ==
    [][(composed >= 1 /\ composed' = composed + 1)
          => report' = [firstReport EXCEPT !.generated = now]]_vars

\* C9 witness: a report composed twice whose content differs from the first.
C9_Witness ==
    /\ composed >= 2
    /\ report # firstReport
    /\ report.trades.placeholder = FALSE

----------------------------------------------------------------------------
(* The two file selections of a run *)

\* C11: the file find_json_file selects as the primary results document is
\* never an order-events file, and never a file load_order_events would
\* select for the trade list, also when the "*.json" fallback is taken.
C11_PrimaryIsNotOrderEvents ==
    jsonFile # NoText =>
        /\ ~EndsWith(jsonFile, OrderEventsExt)
        /\ jsonFile \notin OrderEventsFileChoices(resultsFolder, files)

====
